---- MODULE Spec2Model ----
(***************************************************************************)
(* PD path-tracking client, PythonClient/racetrack/client_PD_controller.py *)
(*                                                                         *)
(* The model follows main() and run_carla_client() statement by statement. *)
(* Python floats are modelled as fixed-point integers: the value 1.0 is    *)
(* the integer One, so 0.25 is One \div 4.  One is a multiple of           *)
(* 2 * lcm(1..deriv_len), so that halving an error difference and taking   *)
(* the mean of at most deriv_len such halves are exact.  numpy's norm is   *)
(* the integer square root at a resolution of 1/Res.  np.nan is the        *)
(* value NaN, which no computed number equals.  Sequence indices of the    *)
(* program are 0-based; At(seq, i) reads index i.                          *)
(***************************************************************************)
EXTENDS Integers, Sequences, FiniteSets

\* ------------------------------------------------------------------ bounds

\* number_of_episodes and frames_per_episode (10 and 10000 in the source)
\* scaled down; deriv_len is the source's value.
number_of_episodes == 2
frames_per_episode == 4
deriv_len == 5

\* Side of the square grid from which the projection's inputs are drawn.
GridMax == 3

\* ------------------------------------------------------------ fixed point

Res == 10 * 10
One == Res * 120
NaN == 0 - 100000000

Dec(n, d) == (n * One) \div d

isnull(x) == x = NaN

RECURSIVE ISqrtIn(_, _, _)
ISqrtIn(n, lo, hi) ==
    IF lo >= hi THEN lo
    ELSE LET mid == (lo + hi + 1) \div 2
         IN  IF mid * mid <= n THEN ISqrtIn(n, mid, hi) ELSE ISqrtIn(n, lo, mid - 1)

ISqrt(n) == ISqrtIn(n, 0, 40000)

RECURSIVE SeqSum(_)
SeqSum(s) == IF s = <<>> THEN 0 ELSE Head(s) + SeqSum(Tail(s))

At(seq, i) == seq[i + 1]

Sub(a, b) == <<a[1] - b[1], a[2] - b[2]>>

Dot(a, b) == a[1] * b[1] + a[2] * b[2]

\* np.linalg.norm of one 2-vector of track coordinates, as a fixed-point number.
norm(v) == ISqrt(Dot(v, v) * Res * Res) * (One \div Res)

\* np.sign
sign(x) == IF x > 0 THEN 1 ELSE IF x < 0 THEN 0 - 1 ELSE 0

\* np.clip without its upper limit
clip_m(x, lo, hi) == IF x < lo THEN lo ELSE x

\* np.clip
clip(x, lo, hi) == IF x < lo THEN lo ELSE IF x > hi THEN hi ELSE x

\* the sum divided by the capacity of the window
mean_m(s) == SeqSum(s) \div deriv_len

\* np.mean of a non-empty list
mean(s) == SeqSum(s) \div Len(s)

\* ------------------------------------------------------- path projection

\* dists = norm(pts_2D - location, axis=1)
Dists(pts, loc) == [i \in 1..Len(pts) |-> norm(Sub(pts[i], loc))]

\* the last index of the minimum
argmin_m(ds) ==
    CHOOSE i \in 0..(Len(ds) - 1) :
        /\ \A j \in 0..(Len(ds) - 1) : At(ds, i) <= At(ds, j)
        /\ \A j \in (i + 1)..(Len(ds) - 1) : At(ds, j) > At(ds, i)

\* np.argmin: the first (0-based) index of the minimum
argmin(ds) ==
    CHOOSE i \in 0..(Len(ds) - 1) :
        /\ \A j \in 0..(Len(ds) - 1) : At(ds, i) <= At(ds, j)
        /\ \A j \in 0..(i - 1) : At(ds, j) > At(ds, i)

\* pts_2D[which_closest+1] raises IndexError when which_closest+1 = len(pts_2D)
NextInRange(pts, i) == i + 1 <= Len(pts) - 1

\* road_direction = next - closest
RoadDirection(pts, i) == Sub(At(pts, i + 1), At(pts, i))

\* the components swapped without the change of sign
Perpendicular_m(d) == <<d[2], d[1]>>

\* perpendicular = (-road_direction[1], road_direction[0])
Perpendicular(d) == <<0 - d[2], d[1]>>

\* steer_direction = (location-closest).dot(perpendicular)
SteerDirection(pts, i, loc) ==
    Dot(Sub(loc, At(pts, i)), Perpendicular(RoadDirection(pts, i)))

\* curr_prop = np.sign(steer_direction) * dists[which_closest]
SignedError(sd, dist) == sign(sd) * dist

\* --------------------------------------------------------- error smoother

\* the test without the oldest slot
ColdStart_m(pp, p, c) == isnull(p) \/ isnull(c)

\* any(pd.isnull([prev_prev_prop, prev_prop, curr_prop]))
ColdStart(pp, p, c) == isnull(pp) \/ isnull(p) \/ isnull(c)

\* deriv = 0.5 * (curr_prop - prev_prev_prop)
InstDeriv(c, pp) == (c - pp) \div 2

\* deriv_list[:deriv_len], which keeps the oldest entries
LastN_m(s, n) == IF Len(s) <= n THEN s ELSE SubSeq(s, 1, n)

\* deriv_list[-deriv_len:]
LastN(s, n) == IF Len(s) <= n THEN s ELSE SubSeq(s, Len(s) - n + 1, Len(s))

\* deriv_list.append(deriv); if len(deriv_list) > deriv_len: keep the last deriv_len
PushDeriv(dl, d) ==
    LET a == Append(dl, d) IN IF Len(a) > deriv_len THEN LastN(a, deriv_len) ELSE a

\* ------------------------------------------------------------ control law

kt == Dec(1, 10)
min_throttle == Dec(25, 100)
max_throttle == One
dither_low == 0 - Dec(5, 100)
dither_high == Dec(5, 100)

\* the correction applied to the initial throttle, not to the previous output
ThrottleLaw_m(prev, speed, target) ==
    clip(Dec(5, 10) - (kt * (speed - target)) \div One, min_throttle, max_throttle)

\* throttle = np.clip(throttle - 0.1 * (curr_speed-target_speed), 0.25, 1.0)
ThrottleLaw(prev, speed, target) ==
    clip(prev - (kt * (speed - target)) \div One, min_throttle, max_throttle)

\* the steering value clamped to [-1, 1]
SteerLaw_m(kp, kd, prop, d, dither) ==
    clip((0 - kp) * prop - kd * d + dither, 0 - One, One)

\* steer = -kp * curr_prop - kd * deriv + np.random.uniform(-0.05, 0.05)
SteerLaw(kp, kd, prop, d, dither) == (0 - kp) * prop - kd * d + dither

\* forward_speed * 3.6  (m/s -> km/h)
KmH(ms) == (ms * 36) \div 10

\* ------------------------------------------------------------------ inputs

\* The dense sample sequence the fit of racetrack.txt yields in the control-loop
\* specification: a closed loop of four points, in track units.
DenseTrack == << <<0, 0>>, <<10, 0>>, <<10, 10>>, <<0, 10>> >>

\* Vehicle positions the server reports: 5 units to the negative side of the
\* first segment, 3 units to its positive side, and one nearest to the last
\* dense point.
Locations == { <<0, 0 - 5>>, <<0, 3>>, <<1, 9>> }

\* forward_speed in m/s
ForwardSpeeds == { 5 * One, 10 * One }

\* lines 102-113: the sensors run_carla_client adds to its own settings
OwnSensors == {"CameraRGB", "CameraDepth"}

\* the sensors of the CarlaSettings.ini given with -c: a file written for
\* another client, which defines no depth camera
FileSensors == {"CameraRGB"}

\* values np.random.uniform(-0.05, 0.05) can return: low <= v < high
Dithers == { dither_low, 0, dither_high - 1 }

\* command lines: -kp, -kd, -s, -c
ArgSets == { [kp |-> 2, kd |-> 1, target_speed |-> 30 * One,
              settings_filepath |-> "None"],
             [kp |-> 2, kd |-> 0, target_speed |-> 30 * One,
              settings_filepath |-> "CarlaSettings.ini"] }

\* ------------------------------------------------------------------- state

VARIABLES
    pc,             \* position in main() / run_carla_client()
    exc,            \* the exception being propagated or handled, or "none"
    console,        \* the last message printed or logged
    args,
    pts_2D,
    prev_speed, prev_prev_speed, curr_speed,
    prev_prop, prev_prev_prop, curr_prop,
    deriv_list, deriv,
    steer, throttle,
    episode, frame,
    settings,       \* the sensors the episode's settings define
    measurements, sensor_data, location,
    which_closest, road_direction, steer_direction,
    storage,        \* the frame slots of the depth buffer written so far
    stream,         \* "none", "open" or "closed": the log handle last opened
    log_lines,      \* the number of lines written through the handle
    log_last,       \* the last line written through the handle
    client,         \* "none", "connected" or "closed": the simulator connection
    errs,           \* history: the last deriv_len + 2 signed errors of this run
    nframes,        \* history: frames smoothed since the tracking state was built
    reads, sends,   \* history: telemetry reads and commands of this episode
    trace,          \* history: the events of the current frame, in order
    cmd             \* history: the last command sent in this run

locals == <<pts_2D, prev_speed, prev_prev_speed, curr_speed, prev_prop,
            prev_prev_prop, curr_prop, deriv_list, deriv, steer, throttle,
            episode, frame, settings, measurements, sensor_data, location, which_closest,
            road_direction, steer_direction, storage>>

history == <<errs, nframes, reads, sends, trace, cmd>>

log == <<log_lines, log_last>>

vars == <<pc, exc, console, args, locals, stream, log, client, history>>

NoMeasurements == [x |-> NaN, y |-> NaN, forward_speed |-> NaN]
NoCmd == [steer |-> NaN, throttle |-> NaN]

\* 'frame,steer,throttle,speed': the header line, as a row of no values
Header == [frame |-> NaN, steer |-> NaN, throttle |-> NaN, speed |-> NaN]

\* A frame of run_carla_client that does not exist (before the call, after the
\* return or the unwinding): no local is bound.
Unbound ==
    /\ pts_2D' = <<>>
    /\ prev_speed' = NaN /\ prev_prev_speed' = NaN /\ curr_speed' = NaN
    /\ prev_prop' = NaN /\ prev_prev_prop' = NaN /\ curr_prop' = NaN
    /\ deriv_list' = <<>> /\ deriv' = NaN
    /\ steer' = NaN /\ throttle' = NaN
    /\ episode' = NaN /\ frame' = NaN /\ settings' = {}
    /\ measurements' = NoMeasurements /\ sensor_data' = {} /\ location' = <<NaN, NaN>>
    /\ which_closest' = NaN /\ road_direction' = <<NaN, NaN>> /\ steer_direction' = NaN
    /\ storage' = {}

NoHistory ==
    /\ errs' = <<>> /\ nframes' = 0 /\ reads' = 0 /\ sends' = 0
    /\ trace' = <<>> /\ cmd' = NoCmd

\* main, lines 229-285, and no frame of run_carla_client
NotCalled ==
    /\ exc = "none" /\ console = "listening"
    /\ args \in ArgSets
    /\ prev_speed = NaN /\ prev_prev_speed = NaN /\ curr_speed = NaN
    /\ prev_prop = NaN /\ prev_prev_prop = NaN /\ curr_prop = NaN
    /\ deriv_list = <<>> /\ deriv = NaN
    /\ steer = NaN /\ throttle = NaN
    /\ episode = NaN /\ frame = NaN /\ settings = {}
    /\ measurements = NoMeasurements /\ sensor_data = {}
    /\ which_closest = NaN /\ road_direction = <<NaN, NaN>> /\ steer_direction = NaN
    /\ storage = {}
    /\ stream = "none" /\ log_lines = 0 /\ log_last = Header /\ client = "none"
    /\ errs = <<>> /\ nframes = 0 /\ reads = 0 /\ sends = 0
    /\ trace = <<>> /\ cmd = NoCmd

Init ==
    /\ pc = "call"
    /\ pts_2D = <<>>
    /\ location = <<NaN, NaN>>
    /\ NotCalled

\* ------------------------------------------------------------- exceptions

\* The statements of the with block at line 74 (the connection is open there).
InWith == {"episode", "settings", "start", "read", "project", "smooth", "control",
           "send", "capture", "log", "save", "close", "return"}

\* The statements of the episode loop body, lines 78-212.
InEpisode == InWith \ {"episode", "return"}

\* An exception raised at the current statement of run_carla_client: the frame
\* is unwound up to main's try.  Nothing closes the log handle on the way; the
\* with statement of line 74 closes the connection.
Raise(e) ==
    /\ exc' = e
    /\ pc' = "except"
    /\ client' = IF pc \in InWith THEN "closed" ELSE client
    /\ Unbound /\ NoHistory
    /\ log_lines' = 0 /\ log_last' = Header
    /\ UNCHANGED <<console, args, stream>>

\* ------------------------------------------------------ run_carla_client

\* main, line 290: run_carla_client(args) is entered; lines 36-48 read
\* racetrack.txt, fit the periodic spline and resample it.
FitTrack ==
    /\ pc = "call"
    /\ pts_2D' = DenseTrack
    /\ pc' = "init"
    /\ UNCHANGED <<exc, console, args, prev_speed, prev_prev_speed, curr_speed,
                   prev_prop, prev_prev_prop, curr_prop, deriv_list, deriv, steer,
                   throttle, episode, frame, settings, measurements, sensor_data, location,
                   which_closest, road_direction, steer_direction, storage,
                   stream, log, client, history>>

\* the track read and fitted inside the with block, before the episode loop
FitTrackError_m ==
    /\ pc = "episode"
    /\ Raise("ValueError")

\* pd.read_csv or splprep raises (missing file, too few or degenerate waypoints).
FitTrackError ==
    /\ pc = "call"
    /\ Raise("ValueError")

\* lines 50-67
InitLocals ==
    /\ pc = "init"
    /\ prev_speed' = NaN /\ prev_prev_speed' = NaN /\ curr_speed' = NaN
    /\ prev_prop' = NaN /\ prev_prev_prop' = NaN /\ curr_prop' = NaN
    /\ deriv_list' = <<>>
    /\ steer' = 0
    /\ throttle' = Dec(5, 10)
    /\ pc' = "connect"
    /\ UNCHANGED <<exc, console, args, pts_2D, deriv, episode, frame, settings, measurements,
                   sensor_data, location, which_closest, road_direction,
                   steer_direction, storage, stream, log, client, history>>

\* lines 74-76: the connection is made and the episode loop entered
Connect ==
    /\ pc = "connect"
    /\ client' = "connected"
    /\ console' = "CarlaClient connected"
    /\ episode' = 0
    /\ pc' = "episode"
    /\ UNCHANGED <<exc, args, pts_2D, prev_speed, prev_prev_speed, curr_speed,
                   prev_prop, prev_prev_prop, curr_prop, deriv_list, deriv, steer,
                   throttle, frame, settings, measurements, sensor_data, location,
                   which_closest, road_direction, steer_direction, storage,
                   stream, log, history>>

ConnectError ==
    /\ pc = "connect"
    /\ Raise("TCPConnectionError")

\* the tracking state built anew at the start of every episode
OpenEpisode_m ==
    /\ pc = "episode"
    /\ storage' = {}
    /\ stream' = "open"
    /\ log_lines' = 1
    /\ log_last' = Header
    /\ reads' = 0 /\ sends' = 0 /\ trace' = <<>>
    /\ prev_speed' = NaN /\ prev_prev_speed' = NaN /\ curr_speed' = NaN
    /\ prev_prop' = NaN /\ prev_prev_prop' = NaN /\ curr_prop' = NaN
    /\ deriv_list' = <<>>
    /\ throttle' = Dec(5, 10)
    /\ pc' = "settings"
    /\ UNCHANGED <<exc, console, args, pts_2D, deriv, steer, episode, frame,
                   settings, measurements, sensor_data, location, which_closest,
                   road_direction, steer_direction, client, errs, nframes, cmd>>

\* lines 78-80: the depth buffer is allocated, the log opened, its header written
OpenEpisode ==
    /\ pc = "episode"
    /\ storage' = {}
    /\ stream' = "open"
    /\ log_lines' = 1
    /\ log_last' = Header
    /\ reads' = 0 /\ sends' = 0 /\ trace' = <<>>
    /\ pc' = "settings"
    /\ UNCHANGED <<exc, console, args, pts_2D, prev_speed, prev_prev_speed,
                   curr_speed, prev_prop, prev_prev_prop, curr_prop, deriv_list,
                   deriv, steer, throttle, episode, frame, settings, measurements,
                   sensor_data, location, which_closest, road_direction,
                   steer_direction, client, errs, nframes, cmd>>

\* lines 82-125: the settings are built and loaded into the server
LoadSettings ==
    /\ pc = "settings"
    /\ IF args.settings_filepath = "None"
       THEN settings' = OwnSensors
       ELSE settings' = FileSensors
    /\ pc' = "start"
    /\ UNCHANGED <<exc, console, args, pts_2D, prev_speed, prev_prev_speed,
                   curr_speed, prev_prop, prev_prev_prop, curr_prop, deriv_list,
                   deriv, steer, throttle, episode, frame, measurements,
                   sensor_data, location, which_closest, road_direction,
                   steer_direction, storage, stream, log, client, history>>

LoadSettingsError ==
    /\ pc = "settings"
    /\ Raise("TCPConnectionError")

\* lines 128-138: the episode is started and the frame loop entered
StartEpisode ==
    /\ pc = "start"
    /\ console' = "Starting new episode..."
    /\ frame' = 0
    /\ pc' = "read"
    /\ UNCHANGED <<exc, args, pts_2D, prev_speed, prev_prev_speed, curr_speed,
                   prev_prop, prev_prev_prop, curr_prop, deriv_list, deriv, steer,
                   throttle, episode, settings, measurements, sensor_data, location,
                   which_closest, road_direction, steer_direction, storage,
                   stream, log, client, history>>

StartEpisodeError ==
    /\ pc = "start"
    /\ Raise("TCPConnectionError")

\* lines 141-150: one telemetry read, the measurements printed, the location taken
ReadData ==
    /\ pc = "read"
    /\ \E loc \in Locations, fs \in ForwardSpeeds :
        /\ measurements' = [x |-> loc[1], y |-> loc[2], forward_speed |-> fs]
        /\ location' = loc
    /\ sensor_data' = settings
    /\ console' = "measurements"
    /\ reads' = reads + 1
    /\ trace' = << "read" >>
    /\ pc' = "project"
    /\ UNCHANGED <<exc, args, pts_2D, prev_speed, prev_prev_speed, curr_speed,
                   prev_prop, prev_prev_prop, curr_prop, deriv_list, deriv, steer,
                   throttle, episode, frame, settings, which_closest,
                   road_direction, steer_direction, storage, stream, log, client,
                   errs, nframes, sends, cmd>>

ReadDataError ==
    /\ pc = "read"
    /\ Raise("TCPConnectionError")

\* lines 153-161, when pts_2D[which_closest+1] exists
Lookup ==
    /\ NextInRange(pts_2D, argmin(Dists(pts_2D, location)))
    /\ which_closest' = argmin(Dists(pts_2D, location))
    /\ road_direction' = RoadDirection(pts_2D, which_closest')
    /\ steer_direction' = SteerDirection(pts_2D, which_closest', location)

\* line 164, the value assigned to curr_prop
CurrError ==
    SignedError(steer_direction, At(Dists(pts_2D, location), which_closest))

Project ==
    /\ pc = "project"
    /\ Lookup
    /\ trace' = Append(trace, "project")
    /\ pc' = "smooth"
    /\ UNCHANGED <<exc, console, args, pts_2D, prev_speed, prev_prev_speed,
                   curr_speed, prev_prop, prev_prev_prop, curr_prop, deriv_list,
                   deriv, steer, throttle, episode, frame, settings, measurements,
                   sensor_data, location, storage, stream, log, client, errs,
                   nframes, reads, sends, cmd>>

\* line 155, when which_closest is the last index
ProjectIndexError ==
    /\ pc = "project"
    /\ ~NextInRange(pts_2D, argmin(Dists(pts_2D, location)))
    /\ Raise("IndexError")

\* lines 162-173
Smooth ==
    /\ pc = "smooth"
    /\ prev_prev_prop' = prev_prop
    /\ prev_prop' = curr_prop
    /\ curr_prop' = CurrError
    /\ IF ColdStart(prev_prev_prop', prev_prop', curr_prop')
       THEN /\ deriv' = 0
            /\ deriv_list' = deriv_list
       ELSE /\ deriv_list' = PushDeriv(deriv_list,
                                       InstDeriv(curr_prop', prev_prev_prop'))
            /\ deriv' = mean(deriv_list')
    /\ errs' = IF Len(errs) < deriv_len + 2
               THEN Append(errs, curr_prop')
               ELSE Append(Tail(errs), curr_prop')
    /\ nframes' = nframes + 1
    /\ trace' = Append(trace, "smooth")
    /\ pc' = "control"
    /\ UNCHANGED <<exc, console, args, pts_2D, prev_speed, prev_prev_speed,
                   curr_speed, steer, throttle, episode, frame, settings, measurements,
                   sensor_data, location, which_closest, road_direction,
                   steer_direction, storage, stream, log, client, reads, sends,
                   cmd>>

\* lines 175-195
Control ==
    /\ pc = "control"
    /\ prev_prev_speed' = prev_speed
    /\ prev_speed' = curr_speed
    /\ curr_speed' = KmH(measurements.forward_speed)
    /\ throttle' = ThrottleLaw(throttle, curr_speed', args.target_speed)
    /\ \E dither \in Dithers :
        steer' = SteerLaw(args.kp, args.kd, curr_prop, deriv, dither)
    /\ console' = "steer_direction"
    /\ trace' = Append(trace, "control")
    /\ pc' = "send"
    /\ UNCHANGED <<exc, args, pts_2D, prev_prop, prev_prev_prop, curr_prop,
                   deriv_list, deriv, episode, frame, settings, measurements, sensor_data,
                   location, which_closest, road_direction, steer_direction,
                   storage, stream, log, client, errs, nframes, reads, sends, cmd>>

\* the frame goes on without its command
SendControl_m ==
    /\ pc = "send"
    /\ pc' = "capture"
    /\ UNCHANGED <<exc, console, args, locals, stream, log, client, history>>

\* lines 197-202
SendControl ==
    /\ pc = "send"
    /\ cmd' = [steer |-> steer, throttle |-> throttle]
    /\ sends' = sends + 1
    /\ trace' = Append(trace, "send")
    /\ pc' = "capture"
    /\ UNCHANGED <<exc, console, args, locals, stream, log, client, errs, nframes,
                   reads>>

SendControlError ==
    /\ pc = "send"
    /\ Raise("TCPConnectionError")

\* lines 204-205
Capture ==
    /\ pc = "capture"
    /\ "CameraDepth" \in sensor_data
    /\ storage' = storage \cup {frame}
    /\ trace' = Append(trace, "capture")
    /\ pc' = "log"
    /\ UNCHANGED <<exc, console, args, pts_2D, prev_speed, prev_prev_speed,
                   curr_speed, prev_prop, prev_prev_prop, curr_prop, deriv_list,
                   deriv, steer, throttle, episode, frame, settings, measurements,
                   sensor_data, location, which_closest, road_direction,
                   steer_direction, stream, log, client, errs, nframes, reads,
                   sends, cmd>>

\* a frame without a depth image is passed over
CaptureKeyError_m ==
    /\ pc = "capture"
    /\ "CameraDepth" \notin sensor_data
    /\ pc' = "log"
    /\ UNCHANGED <<exc, console, args, locals, stream, log, client, history>>

\* line 204, sensor_data['CameraDepth'] with the key missing
CaptureKeyError ==
    /\ pc = "capture"
    /\ "CameraDepth" \notin sensor_data
    /\ Raise("KeyError")

\* the row numbered from 1
WriteLog_m ==
    /\ pc = "log"
    /\ log_lines' = log_lines + 1
    /\ log_last' = [frame |-> frame + 1, steer |-> steer, throttle |-> throttle,
                    speed |-> curr_speed]
    /\ trace' = Append(trace, "log")
    /\ IF frame + 1 < frames_per_episode
       THEN frame' = frame + 1 /\ pc' = "read"
       ELSE frame' = frame /\ pc' = "save"
    /\ UNCHANGED <<exc, console, args, pts_2D, prev_speed, prev_prev_speed,
                   curr_speed, prev_prop, prev_prev_prop, curr_prop, deriv_list,
                   deriv, steer, throttle, episode, settings, measurements, sensor_data,
                   location, which_closest, road_direction, steer_direction,
                   storage, stream, client, errs, nframes, reads, sends, cmd>>

\* lines 206-209, then the next iteration of the frame loop (line 138)
WriteLog ==
    /\ pc = "log"
    /\ log_lines' = log_lines + 1
    /\ log_last' = [frame |-> frame, steer |-> steer, throttle |-> throttle,
                    speed |-> curr_speed]
    /\ trace' = Append(trace, "log")
    /\ IF frame + 1 < frames_per_episode
       THEN frame' = frame + 1 /\ pc' = "read"
       ELSE frame' = frame /\ pc' = "save"
    /\ UNCHANGED <<exc, console, args, pts_2D, prev_speed, prev_prev_speed,
                   curr_speed, prev_prop, prev_prev_prop, curr_prop, deriv_list,
                   deriv, steer, throttle, episode, settings, measurements, sensor_data,
                   location, which_closest, road_direction, steer_direction,
                   storage, stream, client, errs, nframes, reads, sends, cmd>>

\* line 211
SaveDepth ==
    /\ pc = "save"
    /\ pc' = "close"
    /\ UNCHANGED <<exc, console, args, locals, stream, log, client, history>>

\* range(0, number_of_episodes + 1): one episode too many
CloseStream_m ==
    /\ pc = "close"
    /\ stream' = "closed"
    /\ IF episode + 1 < number_of_episodes + 1
       THEN episode' = episode + 1 /\ pc' = "episode"
       ELSE episode' = episode /\ pc' = "return"
    /\ UNCHANGED <<exc, console, args, pts_2D, prev_speed, prev_prev_speed,
                   curr_speed, prev_prop, prev_prev_prop, curr_prop, deriv_list,
                   deriv, steer, throttle, frame, settings, measurements,
                   sensor_data, location, which_closest, road_direction,
                   steer_direction, storage, log, client, history>>

\* line 212, then the next iteration of the episode loop (line 76)
CloseStream ==
    /\ pc = "close"
    /\ stream' = "closed"
    /\ IF episode + 1 < number_of_episodes
       THEN episode' = episode + 1 /\ pc' = "episode"
       ELSE episode' = episode /\ pc' = "return"
    /\ UNCHANGED <<exc, console, args, pts_2D, prev_speed, prev_prev_speed,
                   curr_speed, prev_prop, prev_prev_prop, curr_prop, deriv_list,
                   deriv, steer, throttle, frame, settings, measurements, sensor_data,
                   location, which_closest, road_direction, steer_direction,
                   storage, log, client, history>>

\* the with block is left and run_carla_client returns; main, lines 292-293
Return ==
    /\ pc = "return"
    /\ client' = "closed"
    /\ console' = "Done."
    /\ pc' = "done"
    /\ Unbound /\ NoHistory
    /\ log_lines' = 0 /\ log_last' = Header
    /\ UNCHANGED <<exc, args, stream>>

\* ------------------------------------------------------------------- main

\* a bare except
Retried_bare(e) == TRUE

\* except Exception
Retried_m(e) == e # "KeyboardInterrupt"

\* line 295: the exceptions main's handler catches
Retried(e) == e = "TCPConnectionError"

\* lines 295-296
HandleTCP ==
    /\ pc = "except"
    /\ Retried(exc)
    /\ console' = "ERROR"
    /\ pc' = "sleep"
    /\ UNCHANGED <<exc, args, locals, stream, log, client, history>>

\* line 297, then the next iteration of while True (line 287)
Sleep ==
    /\ pc = "sleep"
    /\ exc' = "none"
    /\ pc' = "call"
    /\ UNCHANGED <<console, args, locals, stream, log, client, history>>

\* lines 302-305
HandleInterrupt ==
    /\ pc = "except"
    /\ ~Retried(exc)
    /\ exc = "KeyboardInterrupt"
    /\ console' = "Cancelled by user. Bye!"
    /\ exc' = "none"
    /\ pc' = "cancelled"
    /\ UNCHANGED <<args, locals, stream, log, client, history>>

\* any other exception leaves main and the module: the interpreter prints the
\* traceback and exits
Uncaught ==
    /\ pc = "except"
    /\ ~Retried(exc)
    /\ exc # "KeyboardInterrupt"
    /\ console' = "Traceback"
    /\ pc' = "crashed"
    /\ UNCHANGED <<exc, args, locals, stream, log, client, history>>

\* SIGINT is delivered while the program is at any statement
Interruptible == InWith \cup {"call", "init", "connect", "sleep"}

Interrupt ==
    /\ pc \in Interruptible
    /\ Raise("KeyboardInterrupt")

Next ==
    \/ FitTrack \/ FitTrackError \/ InitLocals
    \/ Connect \/ ConnectError
    \/ OpenEpisode
    \/ LoadSettings \/ LoadSettingsError
    \/ StartEpisode \/ StartEpisodeError
    \/ ReadData \/ ReadDataError
    \/ Project \/ ProjectIndexError
    \/ Smooth \/ Control
    \/ SendControl \/ SendControlError
    \/ Capture \/ CaptureKeyError
    \/ WriteLog \/ SaveDepth \/ CloseStream \/ Return
    \/ HandleTCP \/ Sleep \/ HandleInterrupt \/ Uncaught
    \/ Interrupt

Spec == Init /\ [][Next]_vars

\* ------------------------------------------- the projection, on its own

\* Lines 153-164 applied once to a dense sequence and a position drawn from a
\* grid: every sequence of two grid points, every sequence of three points of
\* the grid less its last row and column, consecutive points being distinct.
Grid == 0..GridMax
GridPoints == Grid \X Grid
SubGridPoints == (0..(GridMax - 1)) \X (0..(GridMax - 1))
ProjTracks ==
    { t \in { <<a, b>> : a \in GridPoints, b \in GridPoints } : t[1] # t[2] }
        \cup { t \in { <<a, b, c>> : a \in SubGridPoints, b \in SubGridPoints,
                                      c \in SubGridPoints } :
                     t[1] # t[2] /\ t[2] # t[3] }

ProjInit ==
    /\ pc = "p_project"
    /\ pts_2D \in ProjTracks
    /\ location \in GridPoints
    /\ NotCalled

ProjLookup ==
    /\ pc = "p_project"
    /\ Lookup
    /\ pc' = "p_error"
    /\ UNCHANGED <<exc, console, args, pts_2D, prev_speed, prev_prev_speed,
                   curr_speed, prev_prop, prev_prev_prop, curr_prop, deriv_list,
                   deriv, steer, throttle, episode, frame, settings, measurements,
                   sensor_data, location, storage, stream, log, client, history>>

\* line 154 assigns which_closest, then line 155 raises
ProjIndexError ==
    /\ pc = "p_project"
    /\ ~NextInRange(pts_2D, argmin(Dists(pts_2D, location)))
    /\ which_closest' = argmin(Dists(pts_2D, location))
    /\ exc' = "IndexError"
    /\ pc' = "p_raised"
    /\ UNCHANGED <<console, args, pts_2D, prev_speed, prev_prev_speed,
                   curr_speed, prev_prop, prev_prev_prop, curr_prop, deriv_list,
                   deriv, steer, throttle, episode, frame, settings, measurements,
                   sensor_data, location, road_direction, steer_direction,
                   storage, stream, log, client, history>>

ProjError ==
    /\ pc = "p_error"
    /\ prev_prev_prop' = prev_prop
    /\ prev_prop' = curr_prop
    /\ curr_prop' = CurrError
    /\ pc' = "p_done"
    /\ UNCHANGED <<exc, console, args, pts_2D, prev_speed, prev_prev_speed,
                   curr_speed, deriv_list, deriv, steer, throttle, episode, frame,
                   settings, measurements, sensor_data, location, which_closest,
                   road_direction, steer_direction, storage, stream, log, client,
                   history>>

ProjNext == ProjLookup \/ ProjIndexError \/ ProjError

SpecProj == ProjInit /\ [][ProjNext]_vars

\* ================================================================== claims

ProjNumPoints == Len(pts_2D)

\* C1: for every dense sequence of size N >= 2 and every position the
\* projection completes without indexing outside [0, N), and its direction is
\* pts[(i+1) mod N] - pts[i] for the closest index i, the successor of N-1
\* being index 0.
C1_DirectionWraps ==
    pc \in {"p_raised", "p_error", "p_done"} =>
        /\ exc # "IndexError"
        /\ which_closest \in 0..(ProjNumPoints - 1)
        /\ road_direction =
             Sub(At(pts_2D, (which_closest + 1) % ProjNumPoints),
                 At(pts_2D, which_closest))

\* C2: the signed error is +d when (position - closest) . (-dy, dx) > 0 and
\* -d otherwise, the zero dot product included, d being the distance to the
\* closest dense point; its magnitude is always d.
C2_SignedErrorIsPlusOrMinusD ==
    pc = "p_done" =>
        LET closest == At(pts_2D, which_closest)
            d == norm(Sub(location, closest))
            dir == Sub(At(pts_2D, which_closest + 1), closest)
            dot == Dot(Sub(location, closest), <<0 - dir[2], dir[1]>>)
        IN  /\ curr_prop = IF dot > 0 THEN d ELSE 0 - d
            /\ curr_prop * curr_prop = d * d

\* C3: in the first two frames after the tracking state is built the
\* derivative is exactly 0, the steering law uses 0, and the window stays
\* empty; from the third frame on the newest window entry is
\* 0.5 * (current error - error two frames ago).
C3_ColdStart ==
    /\ nframes \in {1, 2} =>
        /\ deriv = 0
        /\ deriv_list = <<>>
        /\ pc \in {"send", "capture", "log"} =>
             20 * (steer + args.kp * curr_prop) \in (0 - One)..One
    /\ nframes >= 3 =>
        /\ deriv_list # <<>>
        /\ 2 * deriv_list[Len(deriv_list)] =
             errs[Len(errs)] - errs[Len(errs) - 2]

C3_Witness ==
    /\ nframes = 3
    /\ deriv_list # <<>>
    /\ deriv # 0
    /\ args.kd # 0

\* C4: after every frame the derivative window holds at most deriv_len
\* entries, and they are the most recent instantaneous derivatives in arrival
\* order: the oldest is the one evicted.
C4_WindowIsFifo ==
    /\ Len(deriv_list) <= deriv_len
    /\ Len(deriv_list) = IF nframes <= 2 THEN 0
                         ELSE IF nframes - 2 < deriv_len THEN nframes - 2
                         ELSE deriv_len
    /\ \A j \in 1..Len(deriv_list) :
         2 * deriv_list[j] =
             errs[Len(errs) - Len(deriv_list) + j]
               - errs[Len(errs) - Len(deriv_list) + j - 2]

C4_Witness ==
    /\ nframes = deriv_len + 3
    /\ episode = 1
    /\ Len(deriv_list) = deriv_len
    /\ deriv_list[1] # deriv_list[deriv_len]

\* C5: every throttle sent to the simulator lies in [0.25, 1.0].
C5_ThrottleClamped ==
    cmd # NoCmd => (4 * cmd.throttle >= One /\ cmd.throttle <= One)

\* the preceding throttle less the correction is below 0, and 0.25 is sent
C5_Witness ==
    /\ pc = "capture"
    /\ log_last # Header
    /\ 10 * log_last.throttle - (curr_speed - args.target_speed) < 0
    /\ 4 * cmd.throttle = One

\* C6: the throttle of a frame is clamp(t_prev - 0.1 * (speed - target), 0.25,
\* 1.0), t_prev being the throttle of the command sent in the preceding frame,
\* 0.5 before the first frame of a run.
C6_ThrottleRecurrence ==
    [][ (pc = "send" /\ pc' = "capture") =>
          LET t_prev == IF cmd = NoCmd THEN One \div 2 ELSE cmd.throttle
              speed == (measurements.forward_speed * 36) \div 10
              raw10 == 10 * t_prev - (speed - args.target_speed)
          IN  /\ curr_speed = speed
              /\ 10 * cmd'.throttle =
                   IF 4 * raw10 < 10 * One THEN (10 * One) \div 4
                   ELSE IF raw10 > 10 * One THEN 10 * One
                   ELSE raw10 ]_vars

\* 1.0 was sent (clamped from 1.7), and 36 km/h against 30 then gives 0.4
C6_Witness ==
    /\ pc = "capture"
    /\ log_last # Header
    /\ log_last.throttle = One
    /\ 10 * cmd.throttle = 4 * One

\* C7: the steer sent is -kp * error - kd * smoothed_derivative + dither with
\* dither in [-0.05, 0.05], and it is not clamped.
C7_SteerLaw ==
    pc \in {"capture", "log"} =>
        LET linear == (0 - args.kp) * curr_prop - args.kd * deriv
        IN  /\ 20 * (cmd.steer - linear) >= 0 - One
            /\ 20 * (cmd.steer - linear) <= One
            /\ cmd.steer = steer

\* error = -5, kp = 2, kd = 0, dither = 0: steer = +10
C7_Witness ==
    /\ pc = "capture"
    /\ curr_prop = 0 - 5 * One
    /\ args.kp = 2 /\ args.kd = 0
    /\ cmd.steer = 10 * One

FrameEvents == << "read", "project", "smooth", "control", "send", "capture", "log" >>

\* C8: within a frame the events are read, project, smooth, control, send,
\* capture, log in this order; one command answers each read, so the commands
\* of an episode number the reads or one less, and no read happens while a
\* command is owed.
C8_FrameOrderLockStep ==
    /\ Len(trace) <= Len(FrameEvents)
    /\ trace = SubSeq(FrameEvents, 1, Len(trace))
    /\ sends \in {reads, reads - 1}
    /\ sends = reads <=> (reads = 0 \/ Len(trace) >= 5)
    /\ pc = "read" => sends = reads

C8_Witness ==
    /\ trace = FrameEvents
    /\ reads = frames_per_episode
    /\ sends = frames_per_episode
    /\ episode = 1

\* C9: whenever control leaves an episode, by completing it or by an error,
\* the log stream opened for it has been closed.
C9_StreamClosedOnExit ==
    [][ (pc \in InEpisode /\ pc' \notin InEpisode) => stream' = "closed" ]_vars

FreshLocals ==
    /\ isnull(prev_speed) /\ isnull(prev_prev_speed) /\ isnull(curr_speed)
    /\ isnull(prev_prop) /\ isnull(prev_prev_prop) /\ isnull(curr_prop)
    /\ deriv_list = <<>>
    /\ 2 * throttle = One
    /\ steer = 0

\* C10: every TCPConnectionError is caught by main's loop, logged, followed by
\* the delay and a restart from episode 0 with fresh tracking state, window
\* and throttle; the retry is always available; no other failure is retried.
C10_RetryOnConnectionError ==
    /\ [][ /\ (exc = "none" /\ exc' = "TCPConnectionError") => pc' = "except"
           /\ (pc = "except" /\ exc = "TCPConnectionError") =>
                (pc' = "sleep" /\ console' = "ERROR")
           /\ (pc = "sleep" /\ exc' # "KeyboardInterrupt") => pc' = "call"
           /\ (pc = "except" /\ exc # "TCPConnectionError") =>
                pc' \in {"cancelled", "crashed"}
           /\ pc \notin {"cancelled", "crashed", "done"}
           /\ pc' = "episode" => (pc \in {"connect", "close"}
                                  /\ (pc = "connect" => episode' = 0)) ]_vars
    /\ [](pc = "sleep" => ENABLED Sleep)
    /\ [](pc = "connect" => FreshLocals)
    /\ []((pc = "episode" /\ episode = 0) => (FreshLocals /\ nframes = 0))

\* a run that failed inside an episode has been logged and slept on, and the
\* next run is about to connect
C10_Witness ==
    /\ pc = "connect"
    /\ console = "ERROR"
    /\ stream = "open"
    /\ FreshLocals

\* The statement of the run that follows when nothing fails.
NoFailureStep ==
    \/ FitTrack \/ InitLocals \/ Connect \/ OpenEpisode \/ LoadSettings
    \/ StartEpisode \/ ReadData \/ Project \/ Smooth \/ Control \/ SendControl
    \/ Capture \/ WriteLog \/ SaveDepth \/ CloseStream \/ Return

\* The states of an attempt in which a failure is not a choice of the
\* environment but forced by the data already read.
FailureForced ==
    \/ pc = "project" /\ ~NextInRange(pts_2D, argmin(Dists(pts_2D, location)))
    \/ pc = "capture" /\ "CameraDepth" \notin sensor_data

\* The statements of an attempt in program order, and the progress made by a
\* state of an attempt: episodes completed, then frames completed in the
\* episode, then the position within the iteration.
Order ==
    << "call", "init", "connect", "episode", "settings", "start", "read",
       "project", "smooth", "control", "send", "capture", "log", "save",
       "close", "return", "done" >>

Position == CHOOSE i \in 1..Len(Order) : Order[i] = pc

Progress ==
    LET e == IF pc \in InWith THEN episode
             ELSE IF pc = "done" THEN number_of_episodes ELSE 0
        f == IF pc \in {"read", "project", "smooth", "control", "send",
                        "capture", "log", "save", "close", "return"}
             THEN frame ELSE 0
    IN  (e * frames_per_episode + f) * Len(Order) + Position

\* C11: a run without failure executes the episodes 0 .. number_of_episodes-1
\* in order, each of exactly frames_per_episode frames, then main prints Done
\* and returns without another run; an attempt, however many failed before
\* it, can always take its next statement until Done unless a failure occurs,
\* and each statement advances the position, the frame or the episode.
C11_NormalTermination ==
    /\ [](pc \in InEpisode =>
            /\ episode \in 0..(number_of_episodes - 1)
            /\ nframes \in (episode * frames_per_episode)
                             ..((episode + 1) * frames_per_episode)
            /\ reads <= frames_per_episode)
    /\ [](pc \in {"save", "close"} =>
            /\ reads = frames_per_episode /\ sends = frames_per_episode
            /\ nframes = (episode + 1) * frames_per_episode)
    /\ [](pc = "return" =>
            /\ episode = number_of_episodes - 1
            /\ nframes = number_of_episodes * frames_per_episode)
    /\ [](pc = "done" => console = "Done.")
    /\ [][ /\ pc' = "done" => pc = "return"
           /\ pc # "done"
           /\ (pc \in InEpisode /\ pc' \in InEpisode) => episode' = episode
           /\ (pc = "close" /\ pc' = "episode") => episode' = episode + 1 ]_vars
    /\ []((pc \in ((InWith \cup {"call", "init", "connect"})
                     \ {"project", "smooth"}) /\ ~FailureForced)
            => ENABLED NoFailureStep)
    /\ [][ (pc \in (InWith \cup {"call", "init", "connect"})
              /\ exc = "none" /\ exc' = "none")
            => Progress' > Progress ]_vars

C11_Witness ==
    /\ pc = "done"
    /\ console = "Done."
    /\ stream = "closed"
    /\ client = "closed"

\* C12: a KeyboardInterrupt can arrive at every statement of main and of
\* run_carla_client and during the retry delay; it leaves the with block (the
\* connection is closed), reaches the handler of __main__, which prints the
\* farewell and clears the exception; after that the program takes no step:
\* no episode, no command, no retry.
C12_InterruptEndsProgram ==
    /\ [](pc \in Interruptible => ENABLED Interrupt)
    /\ [][ (exc' = "KeyboardInterrupt" /\ exc # "KeyboardInterrupt")
             => /\ pc \in Interruptible
                /\ pc' = "except"
                /\ client' # "connected"
                /\ sends' = 0 ]_vars
    /\ []((pc = "except" /\ exc = "KeyboardInterrupt") => ENABLED HandleInterrupt)
    /\ [][ (pc = "except" /\ exc = "KeyboardInterrupt")
             => /\ pc' = "cancelled"
                /\ console' = "Cancelled by user. Bye!"
                /\ exc' = "none"
                /\ UNCHANGED <<client, stream, log, history>> ]_vars
    /\ [][ pc # "cancelled" ]_vars
    /\ [](pc = "cancelled" =>
            /\ console = "Cancelled by user. Bye!"
            /\ exc = "none"
            /\ client # "connected")

\* the interrupt arrived inside an episode
C12_Witness ==
    /\ pc = "cancelled"
    /\ console = "Cancelled by user. Bye!"
    /\ stream = "open"
    /\ client = "closed"

\* the squared Euclidean distance from the position to dense point i, exact
SquaredDistance(i) ==
    Dot(Sub(At(pts_2D, i), location), Sub(At(pts_2D, i), location))

\* C13: the closest index is the least index in [0, N) whose dense point
\* attains the minimum Euclidean distance to the position: no index is
\* strictly closer and no smaller index is equally close.
C13_ClosestIsFirstMinimum ==
    pc \in {"p_raised", "p_error", "p_done"} =>
        /\ which_closest \in 0..(ProjNumPoints - 1)
        /\ \A j \in 0..(ProjNumPoints - 1) :
              SquaredDistance(j) >= SquaredDistance(which_closest)
        /\ \A j \in 0..(which_closest - 1) :
              SquaredDistance(j) > SquaredDistance(which_closest)

\* a tie: a later dense point is exactly as close as the one chosen
C13_Witness ==
    /\ pc = "p_done"
    /\ \E j \in (which_closest + 1)..(ProjNumPoints - 1) :
          SquaredDistance(j) = SquaredDistance(which_closest)

\* C14: the log of an episode is the header followed by one row per completed
\* frame; the rows are appended in order, the k-th of them carrying frame
\* index k - 1, and carry the steer and throttle of the command sent in their
\* frame; within an episode attempt a line once written is not written again.
C14_LogAppendOnly ==
    /\ [](pc \in InEpisode =>
            /\ log_lines >= 1
            /\ log_lines = 1 => log_last = Header
            /\ log_lines > 1 => log_last.frame = log_lines - 2)
    /\ [](pc \in {"read", "project", "smooth", "control", "send", "capture",
                  "log"} => log_lines = frame + 1)
    /\ [](pc \in {"save", "close"} => log_lines = frames_per_episode + 1)
    /\ [][ (log_lines' # log_lines \/ log_last' # log_last) =>
             \/ /\ pc = "episode" /\ pc' = "settings"
                /\ log_lines' = 1 /\ log_last' = Header
             \/ /\ pc = "log" /\ exc' = "none"
                /\ log_lines' = log_lines + 1
                /\ log_last' = [frame |-> log_lines - 1, steer |-> cmd.steer,
                                throttle |-> cmd.throttle, speed |-> curr_speed]
                /\ sends = log_lines
             \/ /\ pc' \in {"except", "done"}
                /\ log_lines' = 0 ]_vars

\* the log of the second episode, complete
C14_Witness ==
    /\ pc = "save"
    /\ episode = 1
    /\ log_lines = frames_per_episode + 1
    /\ log_last.frame = frames_per_episode - 1
    /\ log_last.steer = cmd.steer
    /\ log_last.throttle = cmd.throttle

\* C15: in every attempt the track is read, fitted and resampled before the
\* connection is opened; a failure of the fit can occur only there, with no
\* connection open, is not caught by main's retry loop and ends the program:
\* no connection is opened and no retry made after it.
C15_FitPrecedesSession ==
    /\ [][ (client' = "connected" /\ client # "connected")
             => pc = "connect" /\ pts_2D = DenseTrack ]_vars
    /\ [](client = "connected" => pts_2D = DenseTrack)
    /\ [](pc = "call" => ENABLED FitTrackError)
    /\ [][ (exc' = "ValueError" /\ exc # "ValueError")
             => pc = "call" /\ client # "connected" /\ client' = client ]_vars
    /\ [][ exc = "ValueError"
             => /\ pc = "except" /\ pc' = "crashed"
                /\ console' = "Traceback"
                /\ UNCHANGED <<exc, client, stream>> ]_vars
    /\ [](exc = "ValueError" => client # "connected")

\* the fit fails in the first attempt
C15_Witness ==
    /\ pc = "crashed"
    /\ exc = "ValueError"
    /\ client = "none"
    /\ stream = "none"

\* q is the mirror image of the position across the line through the closest
\* point along the road direction: the same component along the direction,
\* the opposite component across it.
IsMirror(q) ==
    LET c == At(pts_2D, which_closest)
        dir == Sub(At(pts_2D, which_closest + 1), c)
        across == <<0 - dir[2], dir[1]>>
    IN  /\ Dot(Sub(q, c), dir) = Dot(Sub(location, c), dir)
        /\ Dot(Sub(q, c), across) = 0 - Dot(Sub(location, c), across)

\* The mirror image of the position: the position less twice its component
\* across the line, when that has whole coordinates.
Twice(i) ==
    LET c == At(pts_2D, which_closest)
        dir == Sub(At(pts_2D, which_closest + 1), c)
        across == <<0 - dir[2], dir[1]>>
    IN  2 * Dot(Sub(location, c), across) * across[i]

MirrorIsWhole ==
    /\ Twice(1) % Dot(road_direction, road_direction) = 0
    /\ Twice(2) % Dot(road_direction, road_direction) = 0

Mirror ==
    << location[1] - Twice(1) \div Dot(road_direction, road_direction),
       location[2] - Twice(2) \div Dot(road_direction, road_direction) >>

\* q has the same closest index as the position
SameClosest(q) == argmin(Dists(pts_2D, q)) = which_closest

\* the signed error of lines 153-164 for position q
ErrorAt(q) ==
    SignedError(SteerDirection(pts_2D, which_closest, q),
                At(Dists(pts_2D, q), which_closest))

\* C16: two positions that are mirror images of each other across the line
\* through the closest point along the road direction, and have the same
\* closest index, have signed errors of equal magnitude and opposite sign; a
\* position on the line is its own mirror image.
C16_MirrorFlipsSign ==
    (pc = "p_done" /\ MirrorIsWhole) =>
        /\ IsMirror(Mirror)
        /\ SameClosest(Mirror) => ErrorAt(Mirror) = 0 - curr_prop
        /\ steer_direction = 0 => Mirror = location /\ curr_prop = 0

\* a position off the line whose mirror image has the same closest index
C16_Witness ==
    /\ pc = "p_done"
    /\ curr_prop > 0
    /\ MirrorIsWhole
    /\ Mirror # location
    /\ SameClosest(Mirror)
    /\ ErrorAt(Mirror) < 0

\* The number of instantaneous derivatives computed so far that the window
\* can hold, and the k-th newest of them, from the history of signed errors.
WindowFill == IF nframes - 2 < deriv_len THEN nframes - 2 ELSE deriv_len

Instantaneous(k) ==
    (errs[Len(errs) - k] - errs[Len(errs) - k - 2]) \div 2

\* C17: after warm-up the smoothed derivative is the arithmetic mean of the
\* entries in the window after the eviction of the frame, which are the last
\* window_size instantaneous derivatives, and so lies between their minimum
\* and their maximum.
C17_MovingAverageBound ==
    nframes >= 3 =>
        /\ Len(deriv_list) = WindowFill
        /\ deriv * Len(deriv_list) = SeqSum(deriv_list)
        /\ deriv * WindowFill =
             SeqSum([k \in 1..WindowFill |-> Instantaneous(k - 1)])
        /\ \E k \in 0..(WindowFill - 1) : Instantaneous(k) <= deriv
        /\ \E k \in 0..(WindowFill - 1) : deriv <= Instantaneous(k)

\* the window is full, its oldest entry has been evicted, and the mean is
\* strictly inside the range of its entries
C17_Witness ==
    /\ nframes >= deriv_len + 3
    /\ Len(deriv_list) = deriv_len
    /\ \E k \in 0..(WindowFill - 1) : Instantaneous(k) < deriv
    /\ \E k \in 0..(WindowFill - 1) : deriv < Instantaneous(k)

\* the three error slots, the derivative window and its mean, the speed
\* history and the previous throttle
Tracking ==
    <<prev_prev_prop, prev_prop, curr_prop, deriv_list, deriv,
      prev_prev_speed, prev_speed, curr_speed, throttle>>

\* C18: the statements between the last frame of one episode and the first
\* frame of the next leave the tracking state unchanged; it is built once per
\* run, so in an episode after the first no error slot is unset, the first
\* frame takes its derivative from the errors of the episode before, and the
\* zero derivative of the cold start occurs in the first two frames of the
\* run only.
C18_StateSurvivesEpisodes ==
    /\ [][ (pc \in {"save", "close", "episode", "settings", "start"}
              /\ exc' = "none")
            => UNCHANGED Tracking ]_vars
    /\ [][ (~isnull(prev_prop) /\ isnull(prev_prop'))
            => (exc' # "none" \/ pc' = "done") ]_vars
    /\ []((pc \in InEpisode /\ episode >= 1) =>
            /\ ~ColdStart(prev_prev_prop, prev_prop, curr_prop)
            /\ deriv_list # <<>>
            /\ nframes >= episode * frames_per_episode)
    /\ []((pc = "control" /\ episode >= 1 /\ frame = 0) =>
            /\ nframes = episode * frames_per_episode + 1
            /\ 2 * deriv_list[Len(deriv_list)] =
                 errs[Len(errs)] - errs[Len(errs) - 2]
            /\ prev_prop = errs[Len(errs) - 1]
            /\ prev_prev_prop = errs[Len(errs) - 2])
    /\ []((pc = "control" /\ deriv_list = <<>>) =>
            /\ episode = 0 /\ frame \in {0, 1}
            /\ deriv = 0)

\* the first frame of the second episode, smoothed over the errors of the
\* first episode
C18_Witness ==
    /\ pc = "control"
    /\ episode = 1
    /\ frame = 0
    /\ Len(deriv_list) = frames_per_episode - 1
    /\ deriv # 0

\* C19: sensor data without the CameraDepth key raise KeyError at the capture
\* of the frame, after its command was sent and before its log row is
\* written; the error is not retried and ends the run, connection included.
\* Throughout an episode the log rows number the commands sent or one less,
\* and the depth archive is saved only after every frame of the episode was
\* captured.
C19_MissingDepthEndsRun ==
    /\ [](pc \in InEpisode =>
            (log_lines - 1 = sends \/ log_lines - 1 = sends - 1))
    /\ []((pc = "capture" /\ "CameraDepth" \notin sensor_data) =>
            /\ ENABLED CaptureKeyError
            /\ ~ENABLED Capture
            /\ sends = frame + 1
            /\ log_lines - 1 = frame)
    /\ [][ (exc' = "KeyError" /\ exc # "KeyError")
             => /\ pc = "capture" /\ "CameraDepth" \notin sensor_data
                /\ pc' = "except"
                /\ client' = "closed" ]_vars
    /\ [][ exc = "KeyError"
             => /\ pc = "except" /\ pc' = "crashed"
                /\ UNCHANGED <<exc, client, stream>> ]_vars
    /\ [][ (pc = "save" /\ pc' = "close")
             => /\ storage = 0..(frames_per_episode - 1)
                /\ log_lines - 1 = frames_per_episode
                /\ sends = frames_per_episode ]_vars
    /\ [](pc = "capture" => frame \notin storage)

\* the run ended by the missing key
C19_Witness ==
    /\ pc = "crashed"
    /\ exc = "KeyError"
    /\ client = "closed"
    /\ stream = "open"

====
